---- MODULE Spec2Model ----
(***************************************************************************)
(* The server side of the CSV import pipeline of rybbit:                   *)
(*   createSiteImport   src/server/src/api/sites/createSiteImport.ts       *)
(*   batchImportEvents  src/server/src/api/sites/batchImportEvents.ts      *)
(* Every `await` of batchImportEvents that touches shared state (the       *)
(* import record in Postgres, the events table in ClickHouse) is one step  *)
(* of a request, so that requests interleave as Fastify schedules them.    *)
(* ImportLimiter, ImportQuotaTracker, importStatusManager and              *)
(* UmamiImportMapper are not part of the sources at hand: they are         *)
(* modelled from their contract in spec.md (sections 4.1 to 4.3).          *)
(***************************************************************************)
EXTENDS Integers, Sequences, FiniteSets, TLC

VARIABLES
    imports,      \* the import_status table: importId (index) -> record
    store,        \* the ClickHouse events table: a bag of canonical events
    req,          \* the batchImportEvents requests in flight: position and locals
    reply,        \* the reply sent by the last step, if it sent one
    creq,         \* the createSiteImport request in flight: position and locals
    ord,          \* the two-order experiment of SpecOrder (idle under Spec)
    \* The parser worker (client/src/lib/import/types.ts, lines 113-412):
    currentBatch, chunkIndex, totalParsed, totalSkipped, totalErrors,
    errorDetails, lastProgressUpdate,
    dateRange,    \* earliestAllowedDate, latestAllowedDate, userStartDate, userEndDate
    parse,        \* per file: where Papa.parse is in it, and parseCSV's rowIndex
    closed,       \* self.close() was called
    inbox,        \* messages sent to the worker and not yet handled
    posted,       \* messages the worker posted, oldest first
    taken,        \* how many of them the main thread has taken
    row,          \* the results object last handed to the step callback
    \* useGetSiteImports (client/src/api/admin/import.ts):
    poll

workerVars ==
    <<currentBatch, chunkIndex, totalParsed, totalSkipped, totalErrors, errorDetails,
      lastProgressUpdate, dateRange, parse, closed, inbox, posted, taken, row>>
serverVars == <<imports, store, req, reply, creq, ord>>
clientVars == <<workerVars, poll>>

vars == <<imports, store, req, reply, creq, ord, workerVars, poll>>

(***************************************************************************)
(* Bounds of the model.                                                    *)
(***************************************************************************)
MaxReqs == 2        \* batch requests in flight at a time
MaxImports == 1     \* import records over one run
MaxRows == 1        \* rows of one batch under concurrent requests

(***************************************************************************)
(* Program constants.                                                      *)
(***************************************************************************)
MinBatchEvents == 1          \* z.array(...).min(1)
MaxBatchEvents == 10000      \* z.array(...).max(10000)
ConcurrentImportLimit == 1   \* the limiter's configured maximum
MonthlyLimit == 2            \* the tier's per-month cap (scaled down)
NoTimestamp == 0             \* created_at: "" (falsy)
BeforeWindow == 1            \* a month older than oldestAllowedMonth
OldestAllowedMonth == 2      \* first month of the historical window
HistoricalWindowMonths == 1  \* months of history of the tier (scaled down)

WindowMonths == OldestAllowedMonth .. (OldestAllowedMonth + HistoricalWindowMonths - 1)

\* created_at of a row: empty, a month before the window, or a month in it.
Timestamps == {NoTimestamp, BeforeWindow} \cup WindowMonths

\* The sites table: siteId (index) -> organizationId.
SiteOrg == <<1>>
Orgs == {SiteOrg[s] : s \in DOMAIN SiteOrg}
\* Site ids a request may name: the known ones and one that does not exist.
SiteParams == 1 .. (Len(SiteOrg) + 1)

Reqs == 1 .. MaxReqs
ImportIds == 1 .. (MaxImports + 1)

\* events arrays a request may carry (the empty one fails validation). The
\* handler treats the rows of a batch independently of their order, so the
\* batches are enumerated up to the order of their rows.
Batches(maxRows) ==
    {b \in UNION {[1 .. n -> Timestamps] : n \in 0 .. maxRows} :
        \A i \in 1 .. (Len(b) - 1) : b[i] <= b[i + 1]}

\* batchIndex, totalBatches: first and only, first of two, second of two, and
\* a batchIndex past a single batch (the schema does not relate the two).
BatchIndexes == {0, 1}
TotalBatches == {1, 2}

NoPlatform == "null"
NoError == <<>>
Terminal == {"completed", "failed"}
Active == {"pending", "processing"}

(***************************************************************************)
(* Replies.                                                                *)
(***************************************************************************)
Reply(code, success, error, importedCount, message) ==
    [code |-> code, success |-> success, error |-> error,
     importedCount |-> importedCount, message |-> message]

NoReply == Reply(0, FALSE, "", 0, <<>>)
ErrorReply(code, error) == Reply(code, FALSE, error, 0, <<>>)

(***************************************************************************)
(* The events table.                                                       *)
(***************************************************************************)
RECURSIVE SumOver(_, _)
SumOver(S, f) ==
    IF S = {} THEN 0
    ELSE LET x == CHOOSE y \in S : TRUE
         IN f[x] + SumOver(S \ {x}, f)

\* Number of stored events of an organization in a month.
MonthCount(st, org, month) ==
    LET rows == {e \in DOMAIN st : SiteOrg[e.site_id] = org /\ e.timestamp = month}
    IN SumOver(rows, st)

\* Number of stored events tagged with an import.
ImportCount(st, importId) ==
    SumOver({e \in DOMAIN st : e.import_id = importId}, st)

\* clickhouse.insert: appends every row (no deduplication).
RECURSIVE Insert(_, _)
Insert(st, rows) ==
    IF rows = <<>> THEN st
    ELSE LET e == Head(rows)
             n == IF e \in DOMAIN st THEN st[e] + 1 ELSE 1
             st1 == [x \in DOMAIN st \cup {e} |-> IF x = e THEN n ELSE st[x]]
         IN Insert(st1, Tail(rows))

(***************************************************************************)
(* ImportQuotaTracker (spec.md 4.1).                                       *)
(***************************************************************************)
\* ImportQuotaTracker.create: the per-month usage read from the events table.
QuotaTrackerCreate(st, org) == [m \in WindowMonths |-> MonthCount(st, org, m)]

\* canImportEvent: inside the window and the month has capacity left.
canImportEvent(usage, ts) == ts \in WindowMonths /\ usage[ts] < MonthlyLimit

\* getSummary().monthsAtCapacity
monthsAtCapacity(usage) == Cardinality({m \in WindowMonths : usage[m] >= MonthlyLimit})

\* A variant of FilterByQuota that keeps every row that has a timestamp.
RECURSIVE FilterByTimestamp(_, _, _, _)
FilterByTimestamp(usage, events, within, skipped) ==
    IF events = <<>>
    THEN [usage |-> usage, within |-> within, skipped |-> skipped]
    ELSE IF Head(events) = NoTimestamp
         THEN FilterByTimestamp(usage, Tail(events), within, skipped)
         ELSE FilterByTimestamp(usage, Tail(events), Append(within, Head(events)),
                                skipped)

\* The filter loop of batchImportEvents (lines 139-152). canImportEvent is a
\* test of the tracker as it was created (spec.md 4.1): a row it accepts
\* leaves the usage the tracker holds as it is.
RECURSIVE FilterByQuota(_, _, _, _)
FilterByQuota(usage, events, within, skipped) ==
    IF events = <<>>
    THEN [usage |-> usage, within |-> within, skipped |-> skipped]
    ELSE LET ts == Head(events)
         IN IF ts = NoTimestamp
            THEN FilterByQuota(usage, Tail(events), within, skipped)
            ELSE IF canImportEvent(usage, ts)
                 THEN FilterByQuota(usage, Tail(events), Append(within, ts), skipped)
                 ELSE FilterByQuota(usage, Tail(events), within, skipped + 1)

\* UmamiImportMapper.transform: one canonical event per raw row, tagged with
\* the site and the import.
RECURSIVE transform(_, _, _)
transform(events, site, importId) ==
    IF events = <<>> THEN <<>>
    ELSE <<[site_id |-> site, import_id |-> importId, timestamp |-> Head(events)]>>
         \o transform(Tail(events), site, importId)

\* Variants of failsImport: the second batch instead of the first one; every
\* batch.
failsImportSecond(batchIndex, totalBatches) == batchIndex = 1 \/ totalBatches = 1

\* The status update after a fully rejected batch: first or only batch.
failsImport(batchIndex, totalBatches) == batchIndex = 0 \/ totalBatches = 1

\* The text built at lines 157-159 (its wording is not modelled).
quotaMessage(events, batchIndex, usage) == <<"All events exceeded quota">>

(***************************************************************************)
(* importStatusManager and ImportLimiter (spec.md 4.2, 4.3).               *)
(***************************************************************************)
\* getImportById: the record, or none when the id is unknown.
NoImport ==
    [siteId |-> 0, organizationId |-> 0, platform |-> "null", status |-> "undefined",
     importedEvents |-> 0, errorMessage |-> <<>>]

getImportById(imps, importId) ==
    IF importId \in DOMAIN imps THEN imps[importId] ELSE NoImport

\* updateImportStatus: a plain write of status (and errorMessage when given).
updateImportStatus(imps, importId, status, errorMessage) ==
    [imps EXCEPT ![importId].status = status,
                 ![importId].errorMessage =
                     IF errorMessage = NoError THEN @ ELSE errorMessage]

\* updateImportProgress: an increment done by the database.
updateImportProgress(imps, importId, delta) ==
    [imps EXCEPT ![importId].importedEvents = @ + delta]

ActiveImports(imps, org) ==
    {i \in DOMAIN imps : imps[i].organizationId = org /\ imps[i].status \in Active}

\* ImportLimiter.createImportWithConcurrencyCheck: count, then insert, as one
\* atomic step.
createImportWithConcurrencyCheck(imps, candidate) ==
    IF Cardinality(ActiveImports(imps, candidate.organizationId)) >= ConcurrentImportLimit
    THEN [success |-> FALSE, importId |-> 0, imports |-> imps,
          reason |-> "Concurrent import limit"]
    ELSE [success |-> TRUE, importId |-> Len(imps) + 1,
          imports |-> Append(imps, candidate), reason |-> ""]

(***************************************************************************)
(* createSiteImport                                                        *)
(***************************************************************************)
createSiteImportSchema(platform, fileName) ==
    platform \in {"umami"} /\ Len(fileName) >= 1

\* The createSiteImport request in flight. After the record is written the
\* handler waits for ImportQuotaTracker.create (line 76) and holds the id of
\* the record.
IdleCreate == [pc |-> "idle", importId |-> 0]

\* A variant of CreateSiteImport that answers a refusal of the limiter like an
\* exception.
CreateSiteImportGeneric(site, access, platform, fileName) ==
    /\ creq.pc = "idle"
    /\ IF ~createSiteImportSchema(platform, fileName)
       THEN /\ reply' = ErrorReply(400, "Validation error")
            /\ UNCHANGED <<imports, creq>>
       ELSE IF ~access
       THEN /\ reply' = ErrorReply(403, "Forbidden")
            /\ UNCHANGED <<imports, creq>>
       ELSE IF site \notin DOMAIN SiteOrg
       THEN /\ reply' = ErrorReply(404, "Site not found")
            /\ UNCHANGED <<imports, creq>>
       ELSE LET importResult == createImportWithConcurrencyCheck(imports,
                    [siteId |-> site, organizationId |-> SiteOrg[site],
                     platform |-> platform, status |-> "pending",
                     importedEvents |-> 0, errorMessage |-> NoError])
            IN IF ~importResult.success
               THEN /\ reply' = ErrorReply(500, "Internal server error")
                    /\ UNCHANGED <<imports, creq>>
               ELSE /\ imports' = importResult.imports
                    /\ creq' = [pc |-> "tracker", importId |-> importResult.importId]
                    /\ reply' = NoReply
    /\ UNCHANGED <<store, req, ord, clientVars>>

\* Lines 30-73: validation, authorization, the site's organization and the
\* limiter's check-and-insert; the request ends here with an error reply or
\* goes on to line 76 with its record written.
CreateSiteImport(site, access, platform, fileName) ==
    /\ creq.pc = "idle"
    /\ IF ~createSiteImportSchema(platform, fileName)
       THEN /\ reply' = ErrorReply(400, "Validation error")
            /\ UNCHANGED <<imports, creq>>
       ELSE IF ~access
       THEN /\ reply' = ErrorReply(403, "Forbidden")
            /\ UNCHANGED <<imports, creq>>
       ELSE IF site \notin DOMAIN SiteOrg
       THEN /\ reply' = ErrorReply(404, "Site not found")
            /\ UNCHANGED <<imports, creq>>
       ELSE LET importResult == createImportWithConcurrencyCheck(imports,
                    [siteId |-> site, organizationId |-> SiteOrg[site],
                     platform |-> platform, status |-> "pending",
                     importedEvents |-> 0, errorMessage |-> NoError])
            IN IF ~importResult.success
               THEN /\ reply' = ErrorReply(429, importResult.reason)
                    /\ UNCHANGED <<imports, creq>>
               ELSE /\ imports' = importResult.imports
                    /\ creq' = [pc |-> "tracker", importId |-> importResult.importId]
                    /\ reply' = NoReply
    /\ UNCHANGED <<store, req, ord, clientVars>>

\* Lines 76-93: the tracker was created; the reply carries the id of the
\* record and the allowed date range.
CreateSiteImportReply ==
    /\ creq.pc = "tracker"
    /\ reply' = Reply(200, TRUE, "", 0,
                      <<creq.importId, OldestAllowedMonth, HistoricalWindowMonths>>)
    /\ creq' = IdleCreate
    /\ UNCHANGED <<imports, store, req, ord, clientVars>>

\* Lines 76 and 94-97: ImportQuotaTracker.create rejects after the record was
\* written; the catch block answers 500 and leaves the record.
CreateSiteImportTrackerError ==
    /\ creq.pc = "tracker"
    /\ reply' = ErrorReply(500, "Internal server error")
    /\ creq' = IdleCreate
    /\ UNCHANGED <<imports, store, req, ord, clientVars>>

\* Lines 44, 50, 61 and 94-97: a valid request one of whose awaits before
\* line 76 rejects (the access check, the site query, the limiter): 500 and
\* no record.
CreateSiteImportRejected(platform, fileName) ==
    /\ creq.pc = "idle"
    /\ createSiteImportSchema(platform, fileName)
    /\ reply' = ErrorReply(500, "Internal server error")
    /\ UNCHANGED <<imports, store, req, creq, ord, clientVars>>

(***************************************************************************)
(* batchImportEvents                                                       *)
(***************************************************************************)
IdleReq ==
    [pc |-> "idle", site |-> 0, importId |-> 0, batchIndex |-> 0,
     totalBatches |-> 0, events |-> <<>>, status |-> "none",
     platform |-> NoPlatform, within |-> <<>>, errorMessage |-> NoError,
     kept |-> <<>>, prev |-> NoReply]

batchImportRequestSchema(wellFormed, events, batchIndex, totalBatches) ==
    /\ wellFormed
    /\ Len(events) >= MinBatchEvents
    /\ Len(events) <= MaxBatchEvents
    /\ batchIndex >= 0
    /\ totalBatches >= 1

\* A variant of EarlyReply without the test for a failed import.
EarlyReplyLenient(imps, wellFormed, access, site, importId, batchIndex, totalBatches, events) ==
    LET importRecord == getImportById(imps, importId)
    IN IF ~batchImportRequestSchema(wellFormed, events, batchIndex, totalBatches)
       THEN ErrorReply(400, "Validation error")
       ELSE IF ~access
       THEN ErrorReply(403, "Forbidden")
       ELSE IF importRecord = NoImport
       THEN ErrorReply(404, "Import not found")
       ELSE IF importRecord.siteId # site
       THEN ErrorReply(400, "Import does not belong to this site")
       ELSE IF importRecord.status = "completed"
       THEN ErrorReply(400, "Import already completed")
       ELSE NoReply

\* Lines 60-99: the reply of a request that ends before line 101, or NoReply.
EarlyReply(imps, wellFormed, access, site, importId, batchIndex, totalBatches, events) ==
    LET importRecord == getImportById(imps, importId)
    IN IF ~batchImportRequestSchema(wellFormed, events, batchIndex, totalBatches)
       THEN ErrorReply(400, "Validation error")
       ELSE IF ~access
       THEN ErrorReply(403, "Forbidden")
       ELSE IF importRecord = NoImport
       THEN ErrorReply(404, "Import not found")
       ELSE IF importRecord.siteId # site
       THEN ErrorReply(400, "Import does not belong to this site")
       ELSE IF importRecord.status = "completed"
       THEN ErrorReply(400, "Import already completed")
       ELSE IF importRecord.status = "failed"
       THEN ErrorReply(400, "Import has failed")
       ELSE NoReply

\* Lines 60-99: validation, authorization, and the read of the import record.
\* A slot holds the locals of the handler only as long as the code still
\* reads them: importRecord up to line 107, the body up to line 164.
\* kept is the copy of the body the client keeps for a retry (FailedBatch in
\* lib/import/types.ts), prev the reply it holds for an earlier attempt.
Received(r, kept, prev, wellFormed, access, site, importId, batchIndex, totalBatches, events) ==
    LET importRecord == getImportById(imports, importId)
        early == EarlyReply(imports, wellFormed, access, site, importId,
                            batchIndex, totalBatches, events)
    IN IF early # NoReply
       THEN /\ req' = [req EXCEPT ![r] = IdleReq]
            /\ reply' = early
       ELSE /\ req' = [req EXCEPT ![r] =
                 LET q == [IdleReq EXCEPT
                             !.site = site, !.importId = importId,
                             !.batchIndex = batchIndex, !.totalBatches = totalBatches,
                             !.events = events, !.kept = kept, !.prev = prev]
                 IN IF importRecord.status = "pending"
                       \/ importRecord.platform = NoPlatform
                    THEN [q EXCEPT !.pc = "prepare", !.status = importRecord.status,
                                   !.platform = importRecord.platform]
                    ELSE [q EXCEPT !.pc = "quota"]]
            /\ reply' = NoReply

\* Lines 74, 80 and 224-227: a request arrives, for the first time or as the
\* resubmission of a batch the client kept, and the access check or the read
\* of the import record rejects: 500, nothing else, and the request is over.
BatchReadError(r) ==
    /\ req[r].pc \in {"idle", "again"}
    /\ reply' = ErrorReply(500, "Internal server error")
    /\ req' = [req EXCEPT ![r] = IdleReq]
    /\ UNCHANGED <<imports, store, creq, ord, clientVars>>

\* A request arrives. keep: the client keeps a copy of the body to submit it
\* once more after the reply.
BatchStart(r, keep, wellFormed, access, site, importId, batchIndex, totalBatches, events) ==
    /\ req[r].pc = "idle"
    /\ \A p \in Reqs : p < r => req[p].pc # "idle"
    /\ Received(r, IF keep THEN <<batchIndex, totalBatches, events>> ELSE <<>>,
                NoReply, wellFormed, access, site, importId, batchIndex,
                totalBatches, events)
    /\ UNCHANGED <<imports, store, creq, ord, clientVars>>

\* The client submits the batch it kept once more, with the same body.
BatchRetry(r) ==
    LET q == req[r]
    IN /\ q.pc = "again"
       /\ Received(r, <<>>, q.prev, TRUE, TRUE, q.site, q.importId, q.kept[1],
                   q.kept[2], q.kept[3])
       /\ UNCHANGED <<imports, store, creq, ord, clientVars>>

\* The request of slot r ends with the reply rep: its locals are gone, the
\* client holds the reply and the copy it kept, if any.
Replies(r, rep) ==
    /\ reply' = rep
    /\ req' = [req EXCEPT ![r] =
         IF req[r].kept = <<>>
         THEN IdleReq
         ELSE [IdleReq EXCEPT !.pc = "again", !.site = req[r].site,
                              !.importId = req[r].importId,
                              !.kept = req[r].kept, !.prev = rep]]

\* Lines 101-120: pending -> processing and the platform of the first batch,
\* both decided on the record as it was read at line 80.
Prepared(imps, importId, status, platform) ==
    LET imps1 == IF status = "pending"
                 THEN updateImportStatus(imps, importId, "processing", NoError)
                 ELSE imps
    IN IF platform = NoPlatform
       THEN [imps1 EXCEPT ![importId].platform = "umami"]
       ELSE imps1

\* One await of lines 101-120: the status update of line 103 when the record
\* was read pending, and then, or else, the platform update of lines 114-117
\* when it was read without a platform.
BatchPrepare(r) ==
    LET q == req[r]
    IN /\ q.pc = "prepare"
       /\ IF q.status = "pending"
          THEN /\ imports' = Prepared(imports, q.importId, "pending", "umami")
               /\ req' = [req EXCEPT ![r] =
                    IF q.platform = NoPlatform
                    THEN [q EXCEPT !.status = "none"]
                    ELSE [q EXCEPT !.pc = "quota", !.status = "none",
                                   !.platform = NoPlatform]]
          ELSE /\ imports' = Prepared(imports, q.importId, "none", q.platform)
               /\ req' = [req EXCEPT ![r] =
                    [q EXCEPT !.pc = "quota", !.status = "none",
                              !.platform = NoPlatform]]
       /\ reply' = NoReply
       /\ UNCHANGED <<store, creq, ord, clientVars>>

\* Lines 103 or 114-117 and 224-227: the update rejects; the outer catch
\* answers 500 and the record stays as it is.
BatchPrepareError(r) ==
    /\ req[r].pc = "prepare"
    /\ Replies(r, ErrorReply(500, "Internal server error"))
    /\ UNCHANGED <<imports, store, creq, ord, clientVars>>

\* Lines 122-185: the site's organization, a fresh quota tracker, the filter
\* loop and the decision on a fully rejected batch.
QuotaCheck(st, site, events) ==
    FilterByQuota(QuotaTrackerCreate(st, SiteOrg[site]), events, <<>>, 0)

QuotaExceeded(errorMessage) == Reply(400, FALSE, "Quota exceeded", 0, errorMessage)
NoValidEvents == Reply(200, TRUE, "", 0, <<"No valid events">>)
Imported(n) == Reply(200, TRUE, "", n, <<"imported">>)
InsertFailed(message) == Reply(500, FALSE, "Failed to insert events", 0, message)

BatchQuota(r) ==
    LET q == req[r]
        f == QuotaCheck(store, q.site, q.events)
        errorMessage == quotaMessage(q.events, q.batchIndex, f.usage)
        transformedEvents == transform(f.within, q.site, q.importId)
    IN /\ q.pc = "quota"
       /\ IF q.site \notin DOMAIN SiteOrg
          THEN Replies(r, ErrorReply(404, "Site not found"))
          ELSE IF Len(f.within) = 0 /\ Len(q.events) > 0
          THEN IF failsImport(q.batchIndex, q.totalBatches)
               THEN /\ req' = [req EXCEPT ![r] =
                         [q EXCEPT !.pc = "fail", !.errorMessage = errorMessage,
                                   !.batchIndex = 0, !.totalBatches = 0,
                                   !.events = <<>>]]
                    /\ reply' = NoReply
               ELSE Replies(r, QuotaExceeded(errorMessage))
          ELSE IF Len(transformedEvents) = 0
          THEN Replies(r, NoValidEvents)
          ELSE /\ req' = [req EXCEPT ![r] =
                    [q EXCEPT !.pc = "insert", !.within = f.within,
                              !.batchIndex = 0, !.totalBatches = 0,
                              !.events = <<>>]]
               /\ reply' = NoReply
       /\ UNCHANGED <<imports, store, creq, ord, clientVars>>

\* Lines 123-136: the site query rejects (outer catch, lines 224-227) or
\* ImportQuotaTracker.create rejects (inner catch, lines 213-223); nothing is
\* written.
BatchQuotaError(r, tracker) ==
    /\ req[r].pc = "quota"
    /\ Replies(r, IF tracker
                  THEN InsertFailed(<<"ImportQuotaTracker.create rejected">>)
                  ELSE ErrorReply(500, "Internal server error"))
    /\ UNCHANGED <<imports, store, creq, ord, clientVars>>

\* Lines 163-172: the first or only batch was fully rejected.
BatchFail(r) ==
    LET q == req[r]
    IN /\ q.pc = "fail"
       /\ imports' = updateImportStatus(imports, q.importId, "failed", q.errorMessage)
       /\ Replies(r, QuotaExceeded(q.errorMessage))
       /\ UNCHANGED <<store, creq, ord, clientVars>>

\* Lines 165 and 213-223: the status update of a rejected first batch
\* rejects; the inner catch answers 500 and the record stays as it is.
BatchFailError(r) ==
    /\ req[r].pc = "fail"
    /\ Replies(r, InsertFailed(<<"status update failed">>))
    /\ UNCHANGED <<imports, store, creq, ord, clientVars>>

\* Lines 187-192: the bulk write succeeds.
BatchInsert(r) ==
    LET q == req[r]
    IN /\ q.pc = "insert"
       /\ store' = Insert(store, transform(q.within, q.site, q.importId))
       /\ req' = [req EXCEPT ![r].pc = "progress"]
       /\ reply' = NoReply
       /\ UNCHANGED <<imports, creq, ord, clientVars>>

\* A variant of BatchInsertError that also marks the import failed.
BatchInsertErrorFails(r) ==
    /\ req[r].pc = "insert"
    /\ imports' = updateImportStatus(imports, req[r].importId, "failed",
                                     <<"insert failed">>)
    /\ Replies(r, InsertFailed(<<"insert failed">>))
    /\ UNCHANGED <<store, creq, ord, clientVars>>

\* Lines 187-192 and 213-223: the bulk write throws, nothing is written.
BatchInsertError(r) ==
    LET q == req[r]
    IN /\ q.pc = "insert"
       /\ Replies(r, InsertFailed(<<"insert failed">>))
       /\ UNCHANGED <<imports, store, creq, ord, clientVars>>

\* A variant of BatchProgress that writes the batch's count over the counter
\* instead of adding to it.
BatchProgressOverwrite(r) ==
    LET n == Len(req[r].within)
    IN /\ req[r].pc = "progress"
       /\ imports' = [imports EXCEPT ![req[r].importId].importedEvents = n]
       /\ Replies(r, Imported(n))
       /\ UNCHANGED <<store, creq, ord, clientVars>>

\* Lines 205-212: importedEvents grows by the number of rows written.
BatchProgress(r) ==
    LET q == req[r]
        n == Len(transform(q.within, q.site, q.importId))
    IN /\ q.pc = "progress"
       /\ imports' = updateImportProgress(imports, q.importId, n)
       /\ Replies(r, Imported(n))
       /\ UNCHANGED <<store, creq, ord, clientVars>>

\* Lines 205-206 and 213-223: the progress update throws after the write.
BatchProgressError(r) ==
    LET q == req[r]
    IN /\ q.pc = "progress"
       /\ Replies(r, InsertFailed(<<"progress failed">>))
       /\ UNCHANGED <<imports, store, creq, ord, clientVars>>

\* The external completion signal (spec.md 4.3): processing -> completed.
CompleteImport(i) ==
    /\ i \in DOMAIN imports
    /\ imports[i].status = "processing"
    /\ imports' = updateImportStatus(imports, i, "completed", NoError)
    /\ reply' = NoReply
    /\ UNCHANGED <<store, req, creq, ord, clientVars>>

(***************************************************************************)
(* batchImportEvents as one uninterrupted run of the handler (no other     *)
(* request between its awaits, no exception): the state after it and its   *)
(* reply.                                                                  *)
(***************************************************************************)
RunBatch(s, b) ==
    LET importRecord == getImportById(s.imports, b.importId)
        early == EarlyReply(s.imports, b.wellFormed, b.access, b.site, b.importId,
                            b.batchIndex, b.totalBatches, b.events)
        imps1 == Prepared(s.imports, b.importId, importRecord.status,
                          importRecord.platform)
        f == QuotaCheck(s.store, b.site, b.events)
        errorMessage == quotaMessage(b.events, b.batchIndex, f.usage)
        transformedEvents == transform(f.within, b.site, b.importId)
    IN IF early # NoReply
       THEN [imports |-> s.imports, store |-> s.store, reply |-> early]
       ELSE IF Len(f.within) = 0 /\ Len(b.events) > 0
       THEN [imports |-> IF failsImport(b.batchIndex, b.totalBatches)
                         THEN updateImportStatus(imps1, b.importId, "failed", errorMessage)
                         ELSE imps1,
             store |-> s.store, reply |-> QuotaExceeded(errorMessage)]
       ELSE IF Len(transformedEvents) = 0
       THEN [imports |-> imps1, store |-> s.store, reply |-> NoValidEvents]
       ELSE [imports |-> updateImportProgress(imps1, b.importId, Len(transformedEvents)),
             store |-> Insert(s.store, transformedEvents),
             reply |-> Imported(Len(transformedEvents))]

\* The two-order experiment: one pending import of a two-batch file and the
\* month's usage by live traffic, the same in both worlds; world a receives
\* batch 0 then batch 1, world b batch 1 then batch 0.
OrdIdle == [phase |-> "off"]

LiveTraffic(k) ==
    IF k = 0 THEN <<>>
    ELSE [e \in {[site_id |-> 1, import_id |-> 0, timestamp |-> OldestAllowedMonth]} |-> k]

OrdStart(k) ==
    [imports |-> <<[siteId |-> 1, organizationId |-> SiteOrg[1], platform |-> "umami",
                    status |-> "pending", importedEvents |-> 0,
                    errorMessage |-> NoError]>>,
     store |-> LiveTraffic(k), reply |-> NoReply]

OrdBatch(index, events) ==
    [wellFormed |-> TRUE, access |-> TRUE, site |-> 1, importId |-> 1,
     batchIndex |-> index, totalBatches |-> 2, events |-> events]

(***************************************************************************)
(* The parser worker: client/src/lib/import/types.ts, lines 113-412.       *)
(* Papa.parse hands the rows of a file to the step callback one by one and *)
(* then calls complete, or error when reading the file fails.              *)
(***************************************************************************)
CHUNK_SIZE == 2                  \* 5000 in the source, scaled down
PROGRESS_UPDATE_INTERVAL == 1    \* 1000 in the source, scaled down
MaxErrorDetails == 2             \* 100 in the source, scaled down

MaxFiles == 1       \* files handed to the worker
MaxFileRows == 4    \* rows of a file
MaxDay == 3         \* days a row may be dated with

ChannelCapacity == 2    \* chunks the channel to the uploader may hold

Files == 1 .. MaxFiles
Days == 1 .. MaxDay
NoDate == 0         \* a filter date that is null or not a valid date
BadDate == -1       \* a date string that is given and is not a date

\* created_at of a parsed row: the column is absent, empty, text that is not
\* "yyyy-MM-dd HH:mm:ss", or a time on some day.
CreatedAts ==
    {[kind |-> k, day |-> NoDate] : k \in {"missing", "empty", "unparseable"}}
    \cup {[kind |-> "date", day |-> d] : d \in Days}

\* What Papa hands to step: the row (if it produced one) and whether it
\* reported parse errors for it.
StepResults ==
    {[data |-> TRUE, created_at |-> c, errors |-> e] :
        c \in CreatedAts, e \in BOOLEAN}
    \cup {[data |-> FALSE, created_at |-> [kind |-> "missing", day |-> NoDate],
            errors |-> TRUE]}

NoRow == [file |-> 0, pos |-> 0, data |-> FALSE,
          created_at |-> [kind |-> "missing", day |-> NoDate], errors |-> FALSE]

\* Messages to the main thread (WorkerMessageToMain); file is the parse whose
\* callback posted the message.
Msg(type, file, events, index, parsed, skipped, errors, details) ==
    [type |-> type, file |-> file, events |-> events, chunkIndex |-> index,
     parsed |-> parsed, skipped |-> skipped, errors |-> errors, details |-> details]

\* Messages to the worker (WorkerMessageToWorker).
ParseStartMsg(file, earliest, latest, startDate, endDate) ==
    [type |-> "PARSE_START", file |-> file, earliestAllowedDate |-> earliest,
     latestAllowedDate |-> latest, startDate |-> startDate, endDate |-> endDate]

CancelMsg ==
    [type |-> "CANCEL", file |-> 0, earliestAllowedDate |-> NoDate,
     latestAllowedDate |-> NoDate, startDate |-> NoDate, endDate |-> NoDate]

\* The module-level state of the worker as one record.
WorkerState ==
    [currentBatch |-> currentBatch, chunkIndex |-> chunkIndex,
     totalParsed |-> totalParsed, totalSkipped |-> totalSkipped,
     lastProgressUpdate |-> lastProgressUpdate, posted |-> posted]

\* String(rawEvent.created_at || ""): an absent column reads as "".
createdAtString(c) == IF c.kind = "missing" THEN [kind |-> "empty", day |-> NoDate] ELSE c

\* isDateInRange: the date parses and lies within every bound that is set.
isDateInRange(range, c) ==
    /\ c.kind = "date"
    /\ ~(range.earliestAllowedDate # NoDate /\ c.day < range.earliestAllowedDate)
    /\ ~(range.latestAllowedDate # NoDate /\ c.day > range.latestAllowedDate)
    /\ ~(range.userStartDate # NoDate /\ c.day < range.userStartDate)
    /\ ~(range.userEndDate # NoDate /\ c.day > range.userEndDate)

\* A variant of sendChunk that posts the batch whether it holds rows or not.
sendChunkAlways(w, f) ==
    [w EXCEPT !.posted = Append(@, Msg("CHUNK_READY", f, w.currentBatch,
                                       w.chunkIndex, 0, 0, 0, <<>>)),
              !.chunkIndex = @ + 1,
              !.currentBatch = <<>>]

\* A variant of sendChunk that posts the batch and goes on filling it.
sendChunkKeepsBatch(w, f) ==
    IF Len(w.currentBatch) > 0
    THEN [w EXCEPT !.posted = Append(@, Msg("CHUNK_READY", f, w.currentBatch,
                                            w.chunkIndex, 0, 0, 0, <<>>)),
                   !.chunkIndex = @ + 1]
    ELSE w

sendChunk(w, f) ==
    IF Len(w.currentBatch) > 0
    THEN [w EXCEPT !.posted = Append(@, Msg("CHUNK_READY", f, w.currentBatch,
                                            w.chunkIndex, 0, 0, 0, <<>>)),
                   !.chunkIndex = @ + 1,
                   !.currentBatch = <<>>]
    ELSE w

sendProgress(w, f, errors) ==
    [w EXCEPT !.posted = Append(@, Msg("PROGRESS", f, <<>>, 0, w.totalParsed,
                                       w.totalSkipped, errors, <<>>))]

\* A variant of handleParsedRow that range-checks only rows that have a
\* created_at and lets the others into the batch.
handleParsedRowKeepsEmpty(w, range, f, ev, errors) ==
    LET created_at == createdAtString(ev.created_at)
    IN IF created_at.kind # "empty" /\ ~isDateInRange(range, created_at)
       THEN [w EXCEPT !.totalSkipped = @ + 1]
       ELSE LET w1 == [w EXCEPT !.currentBatch = Append(@, ev), !.totalParsed = @ + 1]
                w2 == IF Len(w1.currentBatch) >= CHUNK_SIZE THEN sendChunk(w1, f) ELSE w1
            IN IF w2.totalParsed - w2.lastProgressUpdate >= PROGRESS_UPDATE_INTERVAL
               THEN [sendProgress(w2, f, errors) EXCEPT
                        !.lastProgressUpdate = w2.totalParsed]
               ELSE w2

\* handleParsedRow: ev is the row with its place in the file.
handleParsedRow(w, range, f, ev, errors) ==
    LET created_at == createdAtString(ev.created_at)
    IN IF created_at.kind = "empty"
       THEN [w EXCEPT !.totalSkipped = @ + 1]
       ELSE IF ~isDateInRange(range, created_at)
       THEN [w EXCEPT !.totalSkipped = @ + 1]
       ELSE LET w1 == [w EXCEPT !.currentBatch = Append(@, ev), !.totalParsed = @ + 1]
                w2 == IF Len(w1.currentBatch) >= CHUNK_SIZE THEN sendChunk(w1, f) ELSE w1
            IN IF w2.totalParsed - w2.lastProgressUpdate >= PROGRESS_UPDATE_INTERVAL
               THEN [sendProgress(w2, f, errors) EXCEPT
                        !.lastProgressUpdate = w2.totalParsed]
               ELSE w2

\* The worker's module-level state becomes w.
Becomes(w) ==
    /\ currentBatch' = w.currentBatch
    /\ chunkIndex' = w.chunkIndex
    /\ totalParsed' = w.totalParsed
    /\ totalSkipped' = w.totalSkipped
    /\ lastProgressUpdate' = w.lastProgressUpdate
    /\ posted' = w.posted

\* A variant of ParseStep that records the detail of every error.
ParseStepUncapped(f, maxRows, res) ==
    LET rowIndex == parse[f].rowIndex
        ev == [file |-> f, pos |-> parse[f].pos + 1, data |-> res.data,
               created_at |-> res.created_at, errors |-> res.errors]
        rowIndex1 == IF res.data THEN rowIndex + 1 ELSE rowIndex
    IN /\ ~closed
       /\ parse[f].state = "running"
       /\ parse[f].pos < maxRows
       /\ row' = ev
       /\ Becomes(IF res.data
                  THEN handleParsedRow(WorkerState, dateRange, f, ev, totalErrors)
                  ELSE WorkerState)
       /\ parse' = [parse EXCEPT ![f].rowIndex = rowIndex1, ![f].pos = @ + 1]
       /\ IF res.errors
          THEN /\ totalErrors' = totalErrors + 1
               /\ errorDetails' = Append(errorDetails, rowIndex1)
          ELSE UNCHANGED <<totalErrors, errorDetails>>
       /\ UNCHANGED <<dateRange, closed, inbox, taken, poll, serverVars>>

\* The step callback of parseCSV (lines 333-348) for the next row of file f.
ParseStep(f, maxRows, res) ==
    LET rowIndex == parse[f].rowIndex
        ev == [file |-> f, pos |-> parse[f].pos + 1, data |-> res.data,
               created_at |-> res.created_at, errors |-> res.errors]
        rowIndex1 == IF res.data THEN rowIndex + 1 ELSE rowIndex
    IN /\ ~closed
       /\ parse[f].state = "running"
       /\ parse[f].pos < maxRows
       /\ row' = ev
       /\ Becomes(IF res.data
                  THEN handleParsedRow(WorkerState, dateRange, f, ev, totalErrors)
                  ELSE WorkerState)
       /\ parse' = [parse EXCEPT ![f].rowIndex = rowIndex1, ![f].pos = @ + 1]
       /\ IF res.errors
          THEN /\ totalErrors' = totalErrors + 1
               /\ errorDetails' = IF Len(errorDetails) < MaxErrorDetails
                                  THEN Append(errorDetails, rowIndex1)
                                  ELSE errorDetails
          ELSE UNCHANGED <<totalErrors, errorDetails>>
       /\ UNCHANGED <<dateRange, closed, inbox, taken, poll, serverVars>>

\* A variant of ParseComplete that posts COMPLETE without the final progress.
ParseCompleteNoProgress(f) ==
    LET w1 == sendChunk(WorkerState, f)
    IN /\ ~closed
       /\ parse[f].state = "running"
       /\ Becomes([w1 EXCEPT !.posted =
              Append(@, Msg("COMPLETE", f, <<>>, 0, w1.totalParsed, w1.totalSkipped,
                            totalErrors, errorDetails))])
       /\ parse' = [parse EXCEPT ![f].state = "done"]
       /\ UNCHANGED <<totalErrors, errorDetails, dateRange, closed, inbox, taken, row,
                      poll, serverVars>>

\* The complete callback (lines 349-365): the file has no more rows.
ParseComplete(f) ==
    LET w1 == sendProgress(sendChunk(WorkerState, f), f, totalErrors)
    IN /\ ~closed
       /\ parse[f].state = "running"
       /\ Becomes([w1 EXCEPT !.posted =
              Append(@, Msg("COMPLETE", f, <<>>, 0, w1.totalParsed, w1.totalSkipped,
                            totalErrors, errorDetails))])
       /\ parse' = [parse EXCEPT ![f].state = "done"]
       /\ UNCHANGED <<totalErrors, errorDetails, dateRange, closed, inbox, taken, row,
                      poll, serverVars>>

\* The error callback (lines 366-373): reading the file failed.
ParseError(f) ==
    /\ ~closed
    /\ parse[f].state = "running"
    /\ posted' = Append(posted, Msg("ERROR", f, <<>>, 0, 0, 0, 0, <<>>))
    /\ parse' = [parse EXCEPT ![f].state = "failed"]
    /\ UNCHANGED <<currentBatch, chunkIndex, totalParsed, totalSkipped, totalErrors,
                   errorDetails, lastProgressUpdate, dateRange, closed, inbox, taken,
                   row, poll, serverVars>>

\* The value a filter date holds after DateTime.fromFormat of a date string:
\* the day, or a DateTime that is not valid and bounds nothing.
ParsedDate(d) == IF d \in Days THEN d ELSE NoDate

\* createDateRangeFilter throws: a quota date that is not a date (lines
\* 190-196), or a user date that is given and is not a date (lines 206-212).
createDateRangeFilterThrows(m) ==
    \/ m.earliestAllowedDate \notin Days
    \/ m.latestAllowedDate \notin Days
    \/ m.startDate = BadDate
    \/ m.endDate = BadDate

\* createDateRangeFilter: the four filter dates after the call, range being
\* the dates before it. The quota dates are assigned first (lines 187-188);
\* when one of them is not a date the call throws before it assigns the user
\* dates (lines 199-204), which keep their values.
createDateRangeFilter(range, m) ==
    IF m.earliestAllowedDate \notin Days \/ m.latestAllowedDate \notin Days
    THEN [range EXCEPT !.earliestAllowedDate = ParsedDate(m.earliestAllowedDate),
                       !.latestAllowedDate = ParsedDate(m.latestAllowedDate)]
    ELSE [earliestAllowedDate |-> m.earliestAllowedDate,
          latestAllowedDate |-> m.latestAllowedDate,
          userStartDate |-> ParsedDate(m.startDate),
          userEndDate |-> ParsedDate(m.endDate)]

NoRange ==
    [earliestAllowedDate |-> NoDate, latestAllowedDate |-> NoDate,
     userStartDate |-> NoDate, userEndDate |-> NoDate]

\* self.onmessage (lines 378-412) for the oldest message of the inbox.
OnMessage ==
    LET message == Head(inbox)
    IN /\ ~closed
       /\ inbox # <<>>
       /\ inbox' = Tail(inbox)
       /\ IF message.type = "PARSE_START"
          THEN /\ currentBatch' = <<>>
               /\ chunkIndex' = 0
               /\ totalParsed' = 0
               /\ totalSkipped' = 0
               /\ totalErrors' = 0
               /\ errorDetails' = <<>>
               /\ lastProgressUpdate' = 0
               /\ dateRange' = createDateRangeFilter(dateRange, message)
               /\ parse' = [parse EXCEPT ![message.file].state =
                              IF createDateRangeFilterThrows(message)
                              THEN "off" ELSE "running"]
               /\ UNCHANGED closed
          ELSE /\ closed' = TRUE
               /\ UNCHANGED <<currentBatch, chunkIndex, totalParsed, totalSkipped,
                              totalErrors, errorDetails, lastProgressUpdate, dateRange,
                              parse>>
       /\ UNCHANGED <<posted, taken, row, poll, serverVars>>

\* The main thread posts PARSE_START for file f.
SendParseStart(f, earliest, latest, startDate, endDate) ==
    /\ parse[f].state = "off"
    /\ parse' = [parse EXCEPT ![f].state = "queued"]
    /\ inbox' = Append(inbox, ParseStartMsg(f, earliest, latest, startDate, endDate))
    /\ UNCHANGED <<currentBatch, chunkIndex, totalParsed, totalSkipped, totalErrors,
                   errorDetails, lastProgressUpdate, dateRange, closed, posted, taken,
                   row, poll, serverVars>>

\* The main thread posts CANCEL.
SendCancel ==
    /\ \A k \in DOMAIN inbox : inbox[k].type # "CANCEL"
    /\ ~closed
    /\ inbox' = Append(inbox, CancelMsg)
    /\ UNCHANGED <<currentBatch, chunkIndex, totalParsed, totalSkipped, totalErrors,
                   errorDetails, lastProgressUpdate, dateRange, parse, closed, posted,
                   taken, row, poll, serverVars>>

\* The main thread takes the oldest message it has not taken yet.
TakeMessage ==
    /\ taken < Len(posted)
    /\ taken' = taken + 1
    /\ UNCHANGED <<currentBatch, chunkIndex, totalParsed, totalSkipped, totalErrors,
                   errorDetails, lastProgressUpdate, dateRange, parse, closed, inbox,
                   posted, row, poll, serverVars>>

WorkerInitFor(files) ==
    /\ currentBatch = <<>>
    /\ chunkIndex = 0
    /\ totalParsed = 0
    /\ totalSkipped = 0
    /\ totalErrors = 0
    /\ errorDetails = <<>>
    /\ lastProgressUpdate = 0
    /\ dateRange = NoRange
    /\ parse = [f \in files |-> [state |-> "off", rowIndex |-> 0, pos |-> 0]]
    /\ closed = FALSE
    /\ inbox = <<>>
    /\ posted = <<>>
    /\ taken = 0
    /\ row = NoRow

WorkerInit == WorkerInitFor(Files)

(***************************************************************************)
(* useGetSiteImports: client/src/api/admin/import.ts, lines 30-43.         *)
(***************************************************************************)
RefetchIntervalMs == 5000
MaxListed == 3      \* imports in a fetched list

\* The lists get-site-imports may answer with: the status of each import.
ImportLists ==
    UNION {[1 .. n -> {"pending", "processing", "completed", "failed"}] :
              n \in 0 .. MaxListed}

\* A variant of refetchInterval that looks for processing imports only.
refetchIntervalProcessing(data) ==
    IF \E k \in DOMAIN data : data[k] = "processing" THEN RefetchIntervalMs ELSE 0

\* refetchInterval (lines 34-39): 5000, or 0 for false.
refetchInterval(data) ==
    LET hasActiveImports ==
            \E k \in DOMAIN data : data[k] = "processing" \/ data[k] = "pending"
    IN IF hasActiveImports THEN RefetchIntervalMs ELSE 0

\* placeholderData: an empty list; nothing fetched, no timer.
PollIdle == [data |-> <<>>, timer |-> "off", interval |-> 0, cause |-> "none"]

\* A fetch ends with list; the next refetch is scheduled or not.
Fetched(list, cause) ==
    /\ poll' = [data |-> list, interval |-> refetchInterval(list),
                timer |-> IF refetchInterval(list) # 0 THEN "waiting" ELSE "off",
                cause |-> cause]
    /\ UNCHANGED <<workerVars, serverVars>>

\* The component mounts: the first fetch.
PollMount(list) ==
    /\ poll.cause = "none"
    /\ Fetched(list, "mount")

\* The scheduled interval has elapsed.
PollElapse ==
    /\ poll.timer = "waiting"
    /\ poll' = [poll EXCEPT !.timer = "due"]
    /\ UNCHANGED <<workerVars, serverVars>>

\* The refetch of the timer.
PollRefetch(list) ==
    /\ poll.timer = "due"
    /\ Fetched(list, "interval")

\* invalidateQueries after a create or delete mutation (lines 59-63, 81-85).
PollInvalidate(list) ==
    /\ poll.cause # "none"
    /\ Fetched(list, "invalidate")

InitOrder ==
    /\ imports = <<>>
    /\ store = <<>>
    /\ req = [r \in Reqs |-> IdleReq]
    /\ reply = NoReply
    /\ creq = IdleCreate
    /\ WorkerInit
    /\ poll = PollIdle
    /\ ord \in {[phase |-> "start", b0 |-> x, b1 |-> y, a |-> OrdStart(k),
                  b |-> OrdStart(k), first |-> NoReply] :
                    x \in Batches(MaxRows + 1) \ {<<>>},
                    y \in Batches(MaxRows + 1) \ {<<>>},
                    k \in 0 .. MonthlyLimit}

OrderFirst ==
    /\ ord.phase = "start"
    /\ LET a1 == RunBatch(ord.a, OrdBatch(0, ord.b0))
           b1 == RunBatch(ord.b, OrdBatch(1, ord.b1))
       IN ord' = [ord EXCEPT !.phase = "first", !.a = a1, !.b = b1, !.first = a1.reply]
    /\ UNCHANGED <<imports, store, req, reply, creq, clientVars>>

OrderSecond ==
    /\ ord.phase = "first"
    /\ ord' = [ord EXCEPT !.phase = "second",
                          !.a = RunBatch(ord.a, OrdBatch(1, ord.b1)),
                          !.b = RunBatch(ord.b, OrdBatch(0, ord.b0))]
    /\ UNCHANGED <<imports, store, req, reply, creq, clientVars>>

NextOrder == OrderFirst \/ OrderSecond

SpecOrder == InitOrder /\ [][NextOrder]_vars

ServerInit ==
    /\ imports = <<>>
    /\ store = <<>>
    /\ req = [r \in Reqs |-> IdleReq]
    /\ reply = NoReply
    /\ creq = IdleCreate
    /\ ord = OrdIdle

\* One file parsed by a fresh worker, which the main thread may cancel.
InitParse == ServerInit /\ WorkerInit /\ poll = PollIdle

\* The date ranges of PARSE_START: the quota range alone, narrowed by a user
\* end date, one whose earliest date is not a date, and one whose user start
\* date is not a date.
StartRanges ==
    {[earliest |-> 2, latest |-> MaxDay, startDate |-> NoDate, endDate |-> NoDate],
     [earliest |-> 2, latest |-> MaxDay, startDate |-> NoDate, endDate |-> 2],
     [earliest |-> NoDate, latest |-> MaxDay, startDate |-> NoDate, endDate |-> NoDate],
     [earliest |-> 2, latest |-> MaxDay, startDate |-> BadDate, endDate |-> NoDate]}

NextParse ==
    \/ \E f \in Files, g \in StartRanges :
          /\ \A h \in Files : parse[h].state = "off"
          /\ SendParseStart(f, g.earliest, g.latest, g.startDate, g.endDate)
    \/ OnMessage
    \/ \E f \in Files, res \in StepResults : ParseStep(f, MaxFileRows, res)
    \/ \E f \in Files : ParseComplete(f)
    \/ \E f \in Files : ParseError(f)
    \/ SendCancel

SpecParse == InitParse /\ [][NextParse]_vars

\* The same worker fed rows that all pass the filters, and a main thread that
\* takes the messages at its own pace.
NextChannel ==
    \/ \E f \in Files :
          /\ \A h \in Files : parse[h].state = "off"
          /\ SendParseStart(f, 2, MaxDay, NoDate, NoDate)
    \/ OnMessage
    \/ \E f \in Files, d \in {2, MaxDay} :
          ParseStep(f, MaxFileRows + 2,
                    [data |-> TRUE, created_at |-> [kind |-> "date", day |-> d],
                     errors |-> FALSE])
    \/ \E f \in Files : ParseComplete(f)
    \/ TakeMessage

SpecChannel == InitParse /\ [][NextChannel]_vars

\* A worker that is sent PARSE_START for one file more while it parses; the
\* rows pass the filters or lack a created_at.
OverlapFiles == 1 .. (MaxFiles + 1)
OverlapRows == 3

InitOverlap == ServerInit /\ WorkerInitFor(OverlapFiles) /\ poll = PollIdle

NextOverlap ==
    \/ \E f \in OverlapFiles, g \in StartRanges :
          SendParseStart(f, g.earliest, g.latest, g.startDate, g.endDate)
    \/ OnMessage
    \/ \E f \in OverlapFiles, c \in {[kind |-> "date", day |-> 2],
                                      [kind |-> "empty", day |-> NoDate]} :
          ParseStep(f, OverlapRows, [data |-> TRUE, created_at |-> c, errors |-> FALSE])
    \/ \E f \in OverlapFiles : ParseComplete(f)

SpecOverlap == InitOverlap /\ [][NextOverlap]_vars

\* The import list of one site as the component polls it.
InitPoll == ServerInit /\ WorkerInit /\ poll = PollIdle

NextPoll ==
    \/ \E list \in ImportLists : PollMount(list)
    \/ PollElapse
    \/ \E list \in ImportLists : PollRefetch(list)
    \/ \E list \in ImportLists : PollInvalidate(list)

SpecPoll == InitPoll /\ [][NextPoll]_vars

Init ==
    /\ imports = <<>>
    /\ store = <<>>
    /\ req = [r \in Reqs |-> IdleReq]
    /\ reply = NoReply
    /\ creq = IdleCreate
    /\ ord = OrdIdle
    /\ WorkerInit
    /\ poll = PollIdle

\* The requests the environment sends. Requests that differ only in a way
\* the first rejecting condition does not look at are sent once.
CreateRequests ==
    {[site |-> s, access |-> TRUE, platform |-> "umami", fileName |-> "export.csv"] :
        s \in SiteParams}
    \cup {[site |-> 1, access |-> FALSE, platform |-> "umami",
            fileName |-> "export.csv"],
           [site |-> 1, access |-> TRUE, platform |-> "plausible",
            fileName |-> "export.csv"],
           [site |-> 1, access |-> TRUE, platform |-> "umami", fileName |-> ""]}

BatchRequests(maxRows) ==
    {[wellFormed |-> TRUE, access |-> TRUE, site |-> s, importId |-> i,
      batchIndex |-> b, totalBatches |-> t, events |-> e] :
        s \in DOMAIN SiteOrg, i \in ImportIds, b \in BatchIndexes,
        t \in TotalBatches, e \in Batches(maxRows) \ {<<>>}}
    \cup {[wellFormed |-> w, access |-> a, site |-> s, importId |-> i,
            batchIndex |-> 0, totalBatches |-> 1, events |-> e] :
             w \in BOOLEAN, a \in BOOLEAN, s \in SiteParams, i \in ImportIds,
             e \in {<<>>, <<OldestAllowedMonth>>}}

\* The server under concurrent batch requests.
Next ==
    \/ \E c \in CreateRequests :
          /\ CreateSiteImport(c.site, c.access, c.platform, c.fileName)
          /\ Len(imports') <= MaxImports
    \/ CreateSiteImportReply
    \/ CreateSiteImportTrackerError
    \/ \E c \in CreateRequests : CreateSiteImportRejected(c.platform, c.fileName)
    \/ \E r \in Reqs, b \in BatchRequests(MaxRows) :
          BatchStart(r, FALSE, b.wellFormed, b.access, b.site, b.importId,
                     b.batchIndex, b.totalBatches, b.events)
    \/ \E r \in Reqs : BatchReadError(r)
    \/ \E r \in Reqs : BatchPrepare(r)
    \/ \E r \in Reqs : BatchPrepareError(r)
    \/ \E r \in Reqs : BatchQuota(r)
    \/ \E r \in Reqs, tracker \in BOOLEAN : BatchQuotaError(r, tracker)
    \/ \E r \in Reqs : BatchFail(r)
    \/ \E r \in Reqs : BatchFailError(r)
    \/ \E r \in Reqs : BatchInsert(r)
    \/ \E r \in Reqs : BatchInsertError(r)
    \/ \E r \in Reqs : BatchProgress(r)
    \/ \E r \in Reqs : BatchProgressError(r)
    \/ \E i \in ImportIds : CompleteImport(i)

Spec == Init /\ [][Next]_vars

\* One client that sends its batches one after the other and submits a batch
\* again after its reply.
NextRetry ==
    \/ \E c \in CreateRequests :
          /\ CreateSiteImport(c.site, c.access, c.platform, c.fileName)
          /\ Len(imports') <= MaxImports
    \/ CreateSiteImportReply
    \/ CreateSiteImportTrackerError
    \/ \E c \in CreateRequests : CreateSiteImportRejected(c.platform, c.fileName)
    \/ \E keep \in BOOLEAN, b \in BatchRequests(MaxRows + 1) :
          BatchStart(1, keep, b.wellFormed, b.access, b.site, b.importId,
                     b.batchIndex, b.totalBatches, b.events)
    \/ BatchRetry(1)
    \/ BatchReadError(1)
    \/ BatchPrepare(1)
    \/ BatchPrepareError(1)
    \/ BatchQuota(1)
    \/ \E tracker \in BOOLEAN : BatchQuotaError(1, tracker)
    \/ BatchFail(1)
    \/ BatchFailError(1)
    \/ BatchInsert(1)
    \/ BatchInsertError(1)
    \/ BatchProgress(1)
    \/ BatchProgressError(1)
    \/ \E i \in ImportIds : CompleteImport(i)

SpecRetry == Init /\ [][NextRetry]_vars

\* Import creation interleaved with the batches of a file whose rows all lie
\* before the historical window.
NextLimit ==
    \/ \E c \in CreateRequests :
          /\ CreateSiteImport(c.site, c.access, c.platform, c.fileName)
          /\ Len(imports') <= MaxImports + 1
    \/ CreateSiteImportReply
    \/ CreateSiteImportTrackerError
    \/ \E c \in CreateRequests : CreateSiteImportRejected(c.platform, c.fileName)
    \/ \E r \in Reqs, b \in BatchRequests(MaxRows) :
          /\ \A k \in DOMAIN b.events : b.events[k] = BeforeWindow
          /\ BatchStart(r, FALSE, b.wellFormed, b.access, b.site, b.importId,
                        b.batchIndex, b.totalBatches, b.events)
    \/ \E r \in Reqs : BatchReadError(r)
    \/ \E r \in Reqs : BatchPrepare(r)
    \/ \E r \in Reqs : BatchPrepareError(r)
    \/ \E r \in Reqs : BatchQuota(r)
    \/ \E r \in Reqs, tracker \in BOOLEAN : BatchQuotaError(r, tracker)
    \/ \E r \in Reqs : BatchFail(r)
    \/ \E r \in Reqs : BatchFailError(r)
    \/ \E i \in ImportIds : CompleteImport(i)

SpecLimit == Init /\ [][NextLimit]_vars

(***************************************************************************)
(* Properties.                                                             *)
(***************************************************************************)
\* The step is one of request r.
Moves(r) == req'[r] # req[r]

\* Every row of the batch of r carries a timestamp and canImportEvent would
\* reject each of them now.
AllRejectedByQuota(r) ==
    /\ Len(req[r].events) > 0
    /\ QuotaCheck(store, req[r].site, req[r].events).skipped = Len(req[r].events)

FirstOrOnly(r) == req[r].batchIndex = 0 \/ req[r].totalBatches = 1

StatusRank(status) ==
    IF status = "pending" THEN 0 ELSE IF status = "processing" THEN 1 ELSE 2

\* C1: in every reachable state an organization has at most
\* ConcurrentImportLimit imports that are pending or processing.
C1_ActiveWithinLimit ==
    \A org \in Orgs : Cardinality(ActiveImports(imports, org)) <= ConcurrentImportLimit

\* C2: once an import is completed or failed no step changes its status or
\* platform or raises its importedEvents, requests in flight included.
C2_TerminalUntouched ==
    [][\A i \in DOMAIN imports :
          imports[i].status \in Terminal =>
              /\ imports'[i].status = imports[i].status
              /\ imports'[i].platform = imports[i].platform
              /\ imports'[i].importedEvents <= imports[i].importedEvents]_vars

\* C3: the status of an import only moves forward: pending, processing, then
\* completed or failed; it never goes back and never leaves a terminal state.
C3_StatusForward ==
    [][\A i \in DOMAIN imports :
          /\ StatusRank(imports'[i].status) >= StatusRank(imports[i].status)
          /\ StatusRank(imports[i].status) = 2 =>
                 StatusRank(imports'[i].status) = 2]_vars

\* C4: importedEvents of an import never decreases, and the progress update
\* of a batch adds exactly the number of rows the batch wrote, whatever other
\* batches of the import do between its steps: no update is lost.
C4_NoLostUpdate ==
    [][\A i \in DOMAIN imports :
          /\ imports'[i].importedEvents >= imports[i].importedEvents
          /\ \A r \in Reqs :
                (Moves(r) /\ req[r].pc = "progress" /\ req[r].importId = i
                   /\ reply'.code = 200) =>
                    /\ imports'[i].importedEvents =
                           imports[i].importedEvents + Len(req[r].within)
                    /\ reply'.importedCount = Len(req[r].within)]_vars

\* C4, its case: a batch has just added its row to importedEvents while
\* another batch of the same import has written its row and not yet counted it.
C4_Witness ==
    \E r \in Reqs :
        /\ req[r].pc = "progress"
        /\ req[r].importId \in DOMAIN imports
        /\ reply = Imported(1)
        /\ imports[req[r].importId].importedEvents = 1
        /\ ImportCount(store, req[r].importId) = 2

Total(s) == s.imports[1].importedEvents

\* C5 as stated: the two batches of an import, submitted in either order
\* from the same quota state, leave the same importedEvents.
C5_OrderIndependent ==
    ord.phase = "second" => Total(ord.a) = Total(ord.b)

\* Every month of the window has room left in the events table st.
RoomLeft(st) ==
    \A m \in WindowMonths : MonthCount(st, SiteOrg[1], m) < MonthlyLimit

\* C5, amended: the two orders leave the same importedEvents and the same
\* stored rows whenever batch 0, submitted first, is not answered
\* "Quota exceeded" and the batch submitted first, in either order, leaves
\* room in every month of the window.
C5_OrderIndependentUnlessFirstRejected ==
    [][(/\ ord.phase = "first"
        /\ ord.first.error # "Quota exceeded"
        /\ RoomLeft(ord.a.store)
        /\ RoomLeft(ord.b.store)) =>
           /\ Total(ord'.a) = Total(ord'.b)
           /\ ImportCount(ord'.a.store, 1) = ImportCount(ord'.b.store, 1)]_vars

\* C5, its case: both batches hold a row of the window, batch 0 one more row
\* before it, and the month has room for both: either order imports two rows.
C5_Witness ==
    /\ ord.phase = "second"
    /\ ord.first = Imported(1)
    /\ ord.b0 = <<BeforeWindow, OldestAllowedMonth>>
    /\ ord.b1 = <<OldestAllowedMonth>>
    /\ ord.a.reply = Imported(1)
    /\ ord.b.reply = Imported(1)
    /\ Total(ord.a) = 2
    /\ Total(ord.b) = 2
    /\ ord.a.imports[1].status = "processing"

\* C6: the stored events of an organization in a month never exceed the
\* month's cap, with several quota trackers alive at once.
C6_MonthlyCapKept ==
    \A org \in Orgs : \A m \in WindowMonths : MonthCount(store, org, m) <= MonthlyLimit

\* C7: a first or only batch whose rows are all rejected by the quota writes
\* nothing and leaves importedEvents alone; its request ends with the
\* quota-exceeded error and the import failed with an errorMessage, and failed
\* is the import's final status: no later step moves it out of failed.
C7_RejectedFirstBatchFails ==
    [][/\ \A r \in Reqs :
          /\ (Moves(r) /\ req[r].pc = "quota" /\ AllRejectedByQuota(r) /\ FirstOrOnly(r)) =>
                 /\ req'[r].pc = "fail"
                 /\ reply' = NoReply
                 /\ imports' = imports
                 /\ store' = store
          /\ (Moves(r) /\ req[r].pc = "fail") =>
                 /\ reply' = QuotaExceeded(req[r].errorMessage)
                 /\ ~reply'.success
                 /\ imports'[req[r].importId].status = "failed"
                 /\ imports'[req[r].importId].errorMessage # NoError
                 /\ imports'[req[r].importId].importedEvents =
                        imports[req[r].importId].importedEvents
                 /\ store' = store
       /\ \A i \in DOMAIN imports :
             imports[i].status = "failed" => imports'[i].status = "failed"]_vars

\* C8: a batch that is neither first nor only and whose rows are
\* all rejected by the quota is answered as a success with importedCount 0,
\* and the import stays processing.
C8_RejectedLaterBatchSucceeds ==
    [][\A r \in Reqs :
          (Moves(r) /\ req[r].pc = "quota" /\ AllRejectedByQuota(r) /\ ~FirstOrOnly(r)) =>
              /\ reply'.code = 200
              /\ reply'.success
              /\ reply'.importedCount = 0
              /\ imports'[req[r].importId].status = "processing"]_vars

\* The reply the client holds tells it that the bulk write failed.
WriteFailed(rep) == rep = InsertFailed(<<"insert failed">>)

\* C9: a failed bulk write fails the batch only: the reply is a failure, the
\* import record (status, importedEvents) and the stored rows are unchanged;
\* the same batch submitted again and succeeding writes its rows once and
\* adds their number to importedEvents.
C9_WriteFailureThenRetry ==
    [][\A r \in Reqs :
          /\ (Moves(r) /\ req[r].pc = "insert" /\ req'[r].pc # "progress") =>
                 /\ reply'.code = 500
                 /\ ~reply'.success
                 /\ imports' = imports
                 /\ store' = store
          /\ (Moves(r) /\ req[r].pc = "insert" /\ req'[r].pc = "progress"
                /\ WriteFailed(req[r].prev)) =>
                 /\ ImportCount(store', req[r].importId) =
                        ImportCount(store, req[r].importId) + Len(req[r].within)
                 /\ imports' = imports
          /\ (Moves(r) /\ req[r].pc = "progress" /\ WriteFailed(req[r].prev)
                /\ reply'.code = 200) =>
                 /\ reply' = Imported(Len(req[r].within))
                 /\ imports'[req[r].importId].importedEvents =
                        imports[req[r].importId].importedEvents + Len(req[r].within)
                 /\ imports'[req[r].importId].status =
                        imports[req[r].importId].status]_vars

\* C9, its case: a first batch is counted (one row), the write of the next
\* one failed, and its resubmission has written its row.
C9_Witness ==
    /\ req[1].pc = "progress"
    /\ WriteFailed(req[1].prev)
    /\ imports[req[1].importId].status = "processing"
    /\ imports[req[1].importId].importedEvents = 1
    /\ ImportCount(store, req[1].importId) = 2

\* The reply the client holds tells it that the batch was applied.
Applied(rep) == rep.code = 200 /\ rep.importedCount > 0

\* C10: the same batch submitted again after it was applied changes neither
\* the stored rows nor importedEvents.
C10_RetryIdempotent ==
    [][\A r \in Reqs :
          (Moves(r) /\ req[r].pc \in {"insert", "progress"} /\ Applied(req[r].prev)) =>
              /\ store' = store
              /\ imports' = imports]_vars

\* The defects of a batch request that lines 60-99 reject.
Rejectable(imps, b) ==
    \/ ~b.wellFormed
    \/ Len(b.events) < MinBatchEvents
    \/ Len(b.events) > MaxBatchEvents
    \/ ~b.access
    \/ b.importId \notin DOMAIN imps
    \/ imps[b.importId].siteId # b.site
    \/ imps[b.importId].status \in Terminal

RejectionErrors ==
    {"Validation error", "Forbidden", "Import not found",
     "Import does not belong to this site", "Import already completed",
     "Import has failed"}

\* C11: a batch request that is malformed (an empty events array included),
\* lacks admin access, names an unknown import or an import of another site,
\* or an import that is completed or failed, is answered with an error and
\* leaves the import records and the event store as they were.
C11_RejectionChangesNothing ==
    \A b \in BatchRequests(MaxRows) :
        Rejectable(imports, b) =>
            LET out == RunBatch([imports |-> imports, store |-> store], b)
            IN /\ out.reply.code \in {400, 403, 404}
               /\ out.reply.error \in RejectionErrors
               /\ ~out.reply.success
               /\ out.imports = imports
               /\ out.store = store

\* C11, its case: a request for a failed import has just been refused, while
\* events of the import are stored.
C11_Witness ==
    /\ reply = ErrorReply(400, "Import has failed")
    /\ \E i \in DOMAIN imports :
          /\ imports[i].status = "failed"
          /\ ImportCount(store, i) > 0

\* C12: createSiteImport ends at its first rejecting condition with its own
\* reply: 403 without access, 404 for an unknown site, 429 with the limiter's
\* reason at the limit, each time without a record; otherwise it writes
\* exactly one record, pending with importedEvents 0, and its success reply
\* carries the id of that record and the allowed date range.
C12_CreateOutcomes ==
    [][/\ \A c \in CreateRequests :
             CreateSiteImport(c.site, c.access, c.platform, c.fileName) =>
                 LET valid == createSiteImportSchema(c.platform, c.fileName)
                     known == c.site \in DOMAIN SiteOrg
                     atLimit == /\ known
                                /\ Cardinality(ActiveImports(imports, SiteOrg[c.site]))
                                       >= ConcurrentImportLimit
                 IN /\ (valid /\ ~c.access) =>
                           /\ reply' = ErrorReply(403, "Forbidden")
                           /\ imports' = imports
                    /\ (valid /\ c.access /\ ~known) =>
                           /\ reply' = ErrorReply(404, "Site not found")
                           /\ imports' = imports
                    /\ (valid /\ c.access /\ atLimit) =>
                           /\ reply'.code = 429
                           /\ reply'.error =
                                  createImportWithConcurrencyCheck(imports,
                                      [organizationId |-> SiteOrg[c.site]]).reason
                           /\ imports' = imports
                    /\ (valid /\ c.access /\ known /\ ~atLimit) =>
                           /\ reply' = NoReply
                           /\ Len(imports') = Len(imports) + 1
                           /\ SubSeq(imports', 1, Len(imports)) = imports
                           /\ imports'[Len(imports')].status = "pending"
                           /\ imports'[Len(imports')].importedEvents = 0
                           /\ imports'[Len(imports')].siteId = c.site
                           /\ creq'.pc = "tracker"
                           /\ creq'.importId = Len(imports')
       /\ (creq.pc = "tracker" /\ creq'.pc = "idle") =>
              /\ imports' = imports
              /\ reply'.code = 200 =>
                     reply'.message = <<creq.importId, OldestAllowedMonth,
                                        HistoricalWindowMonths>>
       /\ reply'.code = 200 /\ Len(reply'.message) = 3 =>
              /\ creq.pc = "tracker"
              /\ creq.importId \in DOMAIN imports]_vars

\* C12, its case: one import was created, pending with importedEvents 0, and
\* the next request has just been refused by the limiter.
C12_Witness ==
    /\ reply.code = 429
    /\ Len(imports) = 1
    /\ imports[1].status = "pending"
    /\ imports[1].importedEvents = 0

CountOf(events, m) == Cardinality({k \in DOMAIN events : events[k] = m})

\* C13: the rows a batch keeps are the rows canImportEvent accepts (rows of
\* months of the window that have room left), in their order; the batch writes
\* exactly these rows, and a successful reply carries their number as
\* importedCount, which is also what importedEvents grows by.
C13_CountsAgree ==
    [][\A r \in Reqs :
          /\ (Moves(r) /\ req[r].pc = "quota" /\ req'[r].pc = "insert") =>
                 /\ \A k \in DOMAIN req'[r].within :
                        req'[r].within[k] \in WindowMonths
                 /\ req'[r].within =
                        SelectSeq(req[r].events,
                                  LAMBDA ts : /\ ts # NoTimestamp
                                              /\ canImportEvent(
                                                    QuotaTrackerCreate(store,
                                                        SiteOrg[req[r].site]), ts))
                 /\ \A m \in WindowMonths :
                        CountOf(req'[r].within, m) =
                            IF MonthCount(store, SiteOrg[req[r].site], m) < MonthlyLimit
                            THEN CountOf(req[r].events, m) ELSE 0
          /\ (Moves(r) /\ req[r].pc = "quota" /\ reply'.code = 200) =>
                 /\ reply'.importedCount = 0
                 /\ store' = store
                 /\ imports' = imports
          /\ (Moves(r) /\ req[r].pc = "insert" /\ req'[r].pc = "progress") =>
                 /\ ImportCount(store', req[r].importId) =
                        ImportCount(store, req[r].importId) + Len(req[r].within)
                 /\ req'[r].within = req[r].within
          /\ (Moves(r) /\ req[r].pc = "progress" /\ reply'.success) =>
                 /\ reply'.importedCount = Len(req[r].within)
                 /\ imports'[req[r].importId].importedEvents =
                        imports[req[r].importId].importedEvents + Len(req[r].within)
                 /\ store' = store]_vars

\* C13, its case: a batch of one row before the window and one row inside it
\* was answered with importedCount 1; one row is stored and counted.
C13_Witness ==
    /\ req[1].pc = "again"
    /\ req[1].kept[3] = <<BeforeWindow, OldestAllowedMonth>>
    /\ req[1].prev = Imported(1)
    /\ ImportCount(store, req[1].importId) = 1
    /\ imports[req[1].importId].importedEvents = 1

\* The step hands a row to handleParsedRow.
RowHandled == row' # row /\ row'.data

NoTimestampRow(ev) == ev.created_at.kind \in {"missing", "empty"}

\* Every row of every chunk posted so far satisfies P.
ChunkRows(msgs, P(_)) ==
    \A k \in DOMAIN msgs :
        \A j \in DOMAIN msgs[k].events : P(msgs[k].events[j])

HasTimestamp(ev) == ~NoTimestampRow(ev)

\* C14 as stated: a row whose created_at is missing or empty adds one to
\* totalSkipped, leaves totalErrors alone and is in no CHUNK_READY.
C14_MissingTimestampSkippedOnly ==
    [][/\ (RowHandled /\ NoTimestampRow(row')) =>
              /\ totalSkipped' = totalSkipped + 1
              /\ totalErrors' = totalErrors
              /\ currentBatch' = currentBatch
       /\ ChunkRows(posted', HasTimestamp)]_vars

\* C14, amended: such a row adds one to totalSkipped, is not counted as
\* parsed and is in no CHUNK_READY; totalErrors grows by one exactly when
\* the CSV parser reported an error for that row, and is left alone otherwise.
C14_MissingTimestampSkipped ==
    [][/\ (RowHandled /\ NoTimestampRow(row')) =>
              /\ totalSkipped' = totalSkipped + 1
              /\ totalParsed' = totalParsed
              /\ totalErrors' = totalErrors + (IF row'.errors THEN 1 ELSE 0)
              /\ currentBatch' = currentBatch
              /\ posted' = posted
       /\ ChunkRows(posted', HasTimestamp)]_vars

\* C14, its case: a chunk is out, and a row without created_at has just been
\* skipped, with no error counted.
C14_Witness ==
    /\ row.data
    /\ row.created_at.kind = "missing"
    /\ ~row.errors
    /\ totalSkipped = 1
    /\ totalErrors = 0
    /\ \E k \in DOMAIN posted : posted[k].type = "CHUNK_READY"

\* C15: a row whose timestamp parses but lies outside the effective range is
\* counted as skipped; a row whose timestamp does not parse is counted as an
\* error and not as skipped; neither is in an emitted chunk. (Rows for which
\* the CSV parser itself reported no error.)
C15_UnparseableIsError ==
    [][/\ (RowHandled /\ ~row'.errors /\ row'.created_at.kind = "date"
             /\ ~isDateInRange(dateRange, row'.created_at)) =>
              /\ totalSkipped' = totalSkipped + 1
              /\ totalErrors' = totalErrors
              /\ currentBatch' = currentBatch
       /\ (RowHandled /\ ~row'.errors /\ row'.created_at.kind = "unparseable") =>
              /\ totalErrors' = totalErrors + 1
              /\ totalSkipped' = totalSkipped
              /\ currentBatch' = currentBatch]_vars

\* The messages the parse of file f has posted, oldest first, and its chunks.
MsgsOf(f) == SelectSeq(posted, LAMBDA m : m.file = f)
ChunksOf(f) == SelectSeq(posted, LAMBDA m : m.file = f /\ m.type = "CHUNK_READY")
CountType(msgs, type) == Cardinality({k \in DOMAIN msgs : msgs[k].type = type})

\* C16: the buffer never holds CHUNK_SIZE rows between two rows; the chunks
\* of a parse are numbered 0, 1, 2, ... in the order they are posted; none is
\* empty; each but the last holds CHUNK_SIZE rows, and so does the last while
\* the parse is still running; the last holds 1 to CHUNK_SIZE rows.
C16_ChunkSizesAndIndexes ==
    /\ Len(currentBatch) < CHUNK_SIZE
    /\ \A f \in Files :
          LET chunks == ChunksOf(f)
          IN \A k \in DOMAIN chunks :
                /\ chunks[k].chunkIndex = k - 1
                /\ Len(chunks[k].events) >= 1
                /\ Len(chunks[k].events) <= CHUNK_SIZE
                /\ (k < Len(chunks) \/ parse[f].state = "running") =>
                       Len(chunks[k].events) = CHUNK_SIZE

\* C16, its case: a parse that ended after three admitted rows: chunk 0 with
\* CHUNK_SIZE rows, then chunk 1 with the one row left.
C16_Witness ==
    /\ parse[1].state = "done"
    /\ Len(ChunksOf(1)) = 2
    /\ Len(ChunksOf(1)[1].events) = CHUNK_SIZE
    /\ Len(ChunksOf(1)[2].events) = 1
    /\ ChunksOf(1)[2].chunkIndex = 1

\* C17: a parse that ended normally has posted exactly one COMPLETE, as its
\* last message, right after a PROGRESS with the same counters, and no ERROR;
\* a parse that failed has posted ERROR as its last message and no COMPLETE;
\* a running parse has posted neither; after COMPLETE or ERROR the parse posts
\* nothing.
C17_CompleteOrError ==
    [][/\ \A f \in Files :
             LET msgs == MsgsOf(f)
                 n == Len(msgs)
             IN /\ parse[f].state = "done" =>
                       /\ n >= 2
                       /\ msgs[n].type = "COMPLETE"
                       /\ msgs[n - 1].type = "PROGRESS"
                       /\ msgs[n].parsed = msgs[n - 1].parsed
                       /\ msgs[n].skipped = msgs[n - 1].skipped
                       /\ msgs[n].errors = msgs[n - 1].errors
                       /\ msgs[n].parsed = totalParsed
                       /\ CountType(msgs, "COMPLETE") = 1
                       /\ CountType(msgs, "ERROR") = 0
                /\ parse[f].state = "failed" =>
                       /\ n >= 1
                       /\ msgs[n].type = "ERROR"
                       /\ CountType(msgs, "ERROR") = 1
                       /\ CountType(msgs, "COMPLETE") = 0
                /\ parse[f].state \in {"off", "queued", "running"} =>
                       /\ CountType(msgs, "COMPLETE") = 0
                       /\ CountType(msgs, "ERROR") = 0
       /\ (\A f \in Files : parse[f].state \in {"done", "failed"}) =>
              posted' = posted]_vars

\* C17, its case: a parse has ended normally after a chunk, with rows skipped
\* and an error counted since the last periodic progress.
C17_Witness ==
    /\ parse[1].state = "done"
    /\ posted[Len(posted)].type = "COMPLETE"
    /\ posted[Len(posted)].skipped > 0
    /\ posted[Len(posted)].errors > 0
    /\ CountType(posted, "CHUNK_READY") >= 1

\* A CANCEL waits in the worker's queue while a parse is delivering rows.
CancelWaits ==
    /\ \E k \in DOMAIN inbox : inbox[k].type = "CANCEL"
    /\ \E f \in Files : parse[f].state = "running" /\ parse[f].pos >= 1

\* C18: once the worker has handled CANCEL it posts nothing more, and a
\* CANCEL sent while a parse is delivering rows is handled before that parse
\* finishes the file: no parse ends normally while the CANCEL still waits.
C18_CancelStopsParse ==
    [][/\ closed => posted' = posted
       /\ CancelWaits =>
              \A f \in Files : ~(parse[f].state = "running" /\ parse'[f].state = "done")]_vars

\* Chunks posted and not yet taken by the main thread.
Outstanding ==
    Cardinality({k \in DOMAIN posted : k > taken /\ posted[k].type = "CHUNK_READY"})

\* C19: the chunks posted and not yet taken never exceed the capacity of the
\* channel.
C19_BoundedChannel == Outstanding <= ChannelCapacity

SomeActive(data) == \E k \in DOMAIN data : data[k] \in Active

\* C20: after every fetched list the next refetch is scheduled, 5000 ms
\* later, exactly if some import of the list is pending or processing; the
\* timer runs and refetches only for such a list, and it is off once every
\* listed import is completed or failed.
C20_PollsWhileActive ==
    [][/\ (poll' # poll /\ poll'.timer # "due") =>
              /\ SomeActive(poll'.data) =>
                     (poll'.timer = "waiting" /\ poll'.interval = 5000)
              /\ ~SomeActive(poll'.data) =>
                     (poll'.timer = "off" /\ poll'.interval = 0)
       /\ (poll' # poll /\ poll'.timer = "due") =>
              (SomeActive(poll.data) /\ poll.interval = 5000 /\ poll'.data = poll.data)
       /\ (poll' # poll /\ poll'.cause = "interval" /\ poll'.timer # "due") =>
              (poll.timer = "due" /\ SomeActive(poll.data))
       /\ (poll.timer # "off") <=> SomeActive(poll.data)]_vars

\* C20, its case: a refetch of the timer has brought a list whose imports are
\* all completed or failed, and the timer is off.
C20_Witness ==
    /\ poll.cause = "interval"
    /\ poll.timer = "off"
    /\ Len(poll.data) >= 2
    /\ \E k \in DOMAIN poll.data : poll.data[k] = "completed"
    /\ \E k \in DOMAIN poll.data : poll.data[k] = "failed"

\* The request of slot r is past lines 101-120.
PastPrepare(r) == req[r].pc \in {"quota", "fail", "insert", "progress"}

\* The batch handler run alone on a pending import it accepts leaves the
\* import failed when the batch is a first or only one rejected as a whole,
\* and processing otherwise.
FirstBatchStatus(b) ==
    LET s == [imports |-> imports, store |-> store]
        f == QuotaCheck(store, b.site, b.events)
        after == RunBatch(s, b).imports[b.importId].status
    IN (/\ EarlyReply(imports, b.wellFormed, b.access, b.site, b.importId,
                      b.batchIndex, b.totalBatches, b.events) = NoReply
        /\ imports[b.importId].status = "pending") =>
           after = IF Len(f.within) = 0 /\ failsImport(b.batchIndex, b.totalBatches)
                   THEN "failed" ELSE "processing"

\* C21: a batch request that passes the checks of lines 60-99 on a pending
\* import moves it out of pending at its next step, so that the import is not
\* pending while the request runs on nor when it ends (alone, the request
\* leaves it processing, or failed for a first or only batch rejected as a
\* whole); and no step of the handler makes an import pending again.
C21_FirstBatchStartsProcessing ==
    /\ [](\A b \in BatchRequests(MaxRows) : FirstBatchStatus(b))
    /\ [](\A r \in Reqs : PastPrepare(r) => imports[req[r].importId].status # "pending")
    /\ [][/\ \A r \in Reqs :
               (Moves(r) /\ req[r].pc = "prepare" /\ req[r].status = "pending") =>
                   imports'[req[r].importId].status = "processing"
          /\ \A r \in Reqs :
               (Moves(r) /\ PastPrepare(r) /\ req'[r].pc \in {"idle", "again"}) =>
                   imports'[req[r].importId].status # "pending"
          /\ \A i \in DOMAIN imports :
               imports[i].status # "pending" => imports'[i].status # "pending"]_vars

\* C22: errorDetails never holds more than MaxErrorDetails entries, while
\* totalErrors counts every row the CSV parser reported an error for:
\* totalErrors >= Len(errorDetails), with equality as long as totalErrors has
\* not passed the cap; the summary of COMPLETE carries the same two values.
C22_ErrorDetailsCapped ==
    /\ Len(errorDetails) <= MaxErrorDetails
    /\ totalErrors >= Len(errorDetails)
    /\ totalErrors <= MaxErrorDetails => totalErrors = Len(errorDetails)
    /\ totalErrors > MaxErrorDetails => Len(errorDetails) = MaxErrorDetails
    /\ \A k \in DOMAIN posted :
          posted[k].type = "COMPLETE" =>
              /\ Len(posted[k].details) <= MaxErrorDetails
              /\ posted[k].errors >= Len(posted[k].details)
              /\ posted[k].errors <= MaxErrorDetails =>
                     posted[k].errors = Len(posted[k].details)

\* C22, its case: the parse went on counting errors after errorDetails was
\* full, and COMPLETE reports both.
C22_Witness ==
    \E k \in DOMAIN posted :
        /\ posted[k].type = "COMPLETE"
        /\ posted[k].errors > MaxErrorDetails
        /\ Len(posted[k].details) = MaxErrorDetails
        /\ totalErrors = posted[k].errors

\* C23: no chunk holds rows of two files, and the counters a parse reports
\* count rows of its own file only: a PROGRESS of a parse does not report more
\* rows than the parse has delivered, and its COMPLETE reports as many rows,
\* parsed or skipped, as the file has.
C23_ParseOwnsState ==
    \A k \in DOMAIN posted :
        LET m == posted[k]
        IN /\ m.type = "CHUNK_READY" =>
                 \A i, j \in DOMAIN m.events : m.events[i].file = m.events[j].file
           /\ m.type = "PROGRESS" =>
                 m.parsed + m.skipped <= parse[m.file].rowIndex
           /\ m.type = "COMPLETE" =>
                 m.parsed + m.skipped = parse[m.file].rowIndex

\* C24: a createSiteImport request that is answered with an error leaves no
\* record behind: an error of lines 30-73 leaves the import table as it is,
\* and after an error of the later part the record the request wrote is gone.
C24_FailedCreateLeavesNothing ==
    [][/\ \A c \in CreateRequests :
          (/\ CreateSiteImport(c.site, c.access, c.platform, c.fileName)
           /\ reply'.code >= 400) =>
              imports' = imports
       /\ (creq.pc = "tracker" /\ creq'.pc = "idle" /\ reply'.code >= 400) =>
              creq.importId \notin DOMAIN imports']_vars

\* C25: whenever no batch request is running, importedEvents of every import
\* equals the number of stored rows tagged with it, whichever of the bulk
\* writes and progress updates of the requests so far have failed.
C25_CounterMatchesStore ==
    (\A r \in Reqs : req[r].pc \in {"idle", "again"}) =>
        \A i \in DOMAIN imports : imports[i].importedEvents = ImportCount(store, i)

\* The rows of a sequence of chunks, in the order they were posted.
RECURSIVE RowsOf(_)
RowsOf(chunks) ==
    IF chunks = <<>> THEN <<>> ELSE Head(chunks).events \o RowsOf(Tail(chunks))

\* A row handleParsedRow admits under the filters in force.
Admitted(ev) ==
    /\ ev.data
    /\ ev.created_at.kind = "date"
    /\ isDateInRange(dateRange, ev.created_at)

\* The rows posted in chunks after a step, then the rows still in the buffer.
FlowAfter(f) ==
    RowsOf(SelectSeq(posted', LAMBDA m : m.file = f /\ m.type = "CHUNK_READY"))
        \o currentBatch'

\* C26: in a parse, the rows posted in chunks followed by the rows in the
\* buffer are the admitted rows of the file so far, each once and in file
\* order: a step appends its row if it is admitted and changes nothing else,
\* and the end of the file moves the buffer into the last chunk. totalParsed
\* counts these rows, totalParsed + totalSkipped the rows handed to
\* handleParsedRow, and COMPLETE reports totalParsed as the number of rows
\* over all chunks.
C26_RowsConserved ==
    /\ [](\A f \in Files :
            parse[f].state \in {"running", "done"} =>
                LET flow == RowsOf(ChunksOf(f)) \o currentBatch
                IN /\ totalParsed = Len(flow)
                   /\ totalParsed + totalSkipped = parse[f].rowIndex
                   /\ \A k \in DOMAIN flow : flow[k].file = f /\ Admitted(flow[k])
                   /\ \A j, k \in DOMAIN flow : j < k => flow[j].pos < flow[k].pos
                   /\ parse[f].state = "done" =>
                          /\ currentBatch = <<>>
                          /\ posted[Len(posted)].type = "COMPLETE"
                          /\ posted[Len(posted)].parsed = Len(RowsOf(ChunksOf(f)))
                          /\ posted[Len(posted)].parsed + posted[Len(posted)].skipped
                                 = parse[f].rowIndex)
    /\ [][\A f \in Files :
             parse[f].state = "running" =>
                 LET flow == RowsOf(ChunksOf(f)) \o currentBatch
                 IN /\ (row' # row /\ Admitted(row')) => FlowAfter(f) = Append(flow, row')
                    /\ (row' # row /\ ~Admitted(row')) => FlowAfter(f) = flow
                    /\ (row' = row /\ parse'[f].state # "off") => FlowAfter(f) = flow]_vars

\* C26, its case: a parse has ended with three admitted rows in two chunks
\* and a skipped row before the chunk boundary.
C26_Witness ==
    /\ parse[1].state = "done"
    /\ Len(ChunksOf(1)) = 2
    /\ totalParsed = 3
    /\ totalSkipped = 1
    /\ ChunksOf(1)[1].events[1].pos = 1
    /\ ChunksOf(1)[1].events[2].pos = 3
    /\ ChunksOf(1)[2].events[1].pos = 4

\* C27: a batch none of whose rows canImportEvent rejects is not answered
\* "Quota exceeded" and does not move its import to failed: its quota step
\* neither sends that error nor goes on to the status update of a rejected
\* first batch.
C27_QuotaErrorNeedsRejectedRow ==
    [][\A r \in Reqs :
          (/\ Moves(r)
           /\ req[r].pc = "quota"
           /\ req[r].site \in DOMAIN SiteOrg
           /\ QuotaCheck(store, req[r].site, req[r].events).skipped = 0) =>
              /\ reply'.error # "Quota exceeded"
              /\ req'[r].pc # "fail"]_vars
====
